---- MODULE Spec2Model ----
(***************************************************************************)
(* A model of file-monitor.py: a FileMonitor tails one file, splits what   *)
(* it reads into lines and runs an ordered list of Rules on every line;    *)
(* the Rules increment named counters and append to named stores.  read()  *)
(* is called by Twisted LoopingCalls in the single reactor thread; the     *)
(* file is written by other processes.                                     *)
(*                                                                         *)
(* Text is a sequence of one-character strings.                            *)
(***************************************************************************)
EXTENDS Integers, Sequences, FiniteSets, TLC

\* ------------------------------------------------------------- bounds

\* Bytes the writers put into all files together.
MaxBytes == 3
\* block_size of the FileMonitor (8192 by default), scaled down.
BlockSize == 2
\* Assignments to FileMonitor.filename after construction.
MaxChanges == 1
\* The runs with several LoopingCalls on one monitor: calls of loop(), and
\* bytes the writers put into all files together.
MaxLoops == 2
MaxLoopBytes == 1
\* The rule-evaluation runs: rules in a list, characters in a line, calls
\* of lineRead.
MaxRules == 2
MaxLineLen == 2
MaxCalls == 1

\* ------------------------------------------------------------- text

NL == "\n"
CR == "\r"
SP == " "
\* The characters the writers put into the files.
Chars == {"a", NL, CR}
Paths == {"p1", "p2"}

Min(x, y) == IF x <= y THEN x ELSE y

\* The index of the last c in s, 0 when there is none.
LastIndexOf(s, c) ==
  LET hits == {i \in 1..Len(s) : s[i] = c}
  IN IF hits = {} THEN 0 ELSE CHOOSE i \in hits : \A j \in hits : j <= i

\* str.rsplit('\n', 1): split at the last newline; one piece without one.
RSplit1(s) ==
  LET i == LastIndexOf(s, NL)
  IN IF i = 0 THEN <<s>>
     ELSE <<SubSeq(s, 1, i - 1), SubSeq(s, i + 1, Len(s))>>

\* str.splitlines() of a Python 2 str: lines end at "\n", "\r" or "\r\n";
\* the terminators are dropped and no empty piece follows the last one.
RECURSIVE SplitLines(_)
SplitLines(s) ==
  IF s = <<>> THEN <<>>
  ELSE LET brk == {i \in 1..Len(s) : s[i] \in {NL, CR}}
       IN IF brk = {} THEN <<s>>
          ELSE LET i == CHOOSE x \in brk : \A y \in brk : x <= y
                   n == IF s[i] = CR /\ i < Len(s) /\ s[i + 1] = NL
                        THEN 2 ELSE 1
               IN <<SubSeq(s, 1, i - 1)>>
                    \o SplitLines(SubSeq(s, i + n, Len(s)))

\* ------------------------------------------------------------- rules

\* A Rule: its regex is lit (ngroups = 0), lit(.*)$ (1) or (lit)(.*)$ (2),
\* lit a literal text; counters and stores are lists of names.
MkRule(lit, ngroups, cs, ss, stop) ==
  [lit |-> lit, ngroups |-> ngroups, counters |-> cs, stores |-> ss,
   stop |-> stop]

\* re.search: the start of the leftmost occurrence of the literal, 0: no match.
Search(rule, line) ==
  LET n == Len(rule.lit)
      hits == {i \in 1..(Len(line) - n + 1) :
                 SubSeq(line, i, i + n - 1) = rule.lit}
  IN IF hits = {} THEN 0 ELSE CHOOSE i \in hits : \A j \in hits : i <= j

\* match.groups(): the captured texts, in group order.
Groups(rule, line) ==
  LET i == Search(rule, line)
      rest == SubSeq(line, i + Len(rule.lit), Len(line))
  IN CASE rule.ngroups = 0 -> <<>>
       [] rule.ngroups = 1 -> <<rest>>
       [] OTHER -> <<rule.lit, rest>>

\* " ".join(groups)
RECURSIVE Join(_)
Join(groups) ==
  IF groups = <<>> THEN <<>>
  ELSE IF Len(groups) = 1 THEN groups[1]
  ELSE groups[1] \o <<SP>> \o Join(Tail(groups))

\* A faulty variant of Increment: the counter is set, not incremented.
IncrementSets(cnt, name) ==
  IF name \in DOMAIN cnt THEN [cnt EXCEPT ![name] = 1]
  ELSE cnt @@ (name :> 1)

\* counters[counter] += 1 on a defaultdict(int)
Increment(cnt, name) ==
  IF name \in DOMAIN cnt THEN [cnt EXCEPT ![name] = @ + 1]
  ELSE cnt @@ (name :> 1)

\* A faulty variant of AppendStore: the line is put in front.
PrependStore(sto, name, line) ==
  IF name \in DOMAIN sto THEN [sto EXCEPT ![name] = <<line>> \o @]
  ELSE sto @@ (name :> <<line>>)

\* stores[store].append(line) on a defaultdict(list)
AppendStore(sto, name, line) ==
  IF name \in DOMAIN sto THEN [sto EXCEPT ![name] = Append(@, line)]
  ELSE sto @@ (name :> <<line>>)

RECURSIVE IncrementAll(_, _)
IncrementAll(cnt, names) ==
  IF names = <<>> THEN cnt
  ELSE IncrementAll(Increment(cnt, Head(names)), Tail(names))

RECURSIVE AppendAll(_, _, _)
AppendAll(sto, names, line) ==
  IF names = <<>> THEN sto
  ELSE AppendAll(AppendStore(sto, Head(names), line), Tail(names), line)

\* A faulty variant of StoredText: the groups are ignored.
StoredLine(rule, line) == line

\* The line Rule.check prints and stores: the groups joined, if any.
StoredText(rule, line) ==
  LET groups == Groups(rule, line)
  IN IF Len(groups) # 0 THEN Join(groups) ELSE line

\* What Rule.check returns.
CheckReturn(rule, matched) == rule.stop

\* Rule.check(line, counters, stores) of rule number idx, on the monitor
\* state st = [counters, stores, fired]; fired logs the rules that matched,
\* as <<number of the line, number of the rule>>.
Check(rule, idx, lineNo, line, st) ==
  LET matched == Search(rule, line) # 0
      text == StoredText(rule, line)
  IN IF matched
     THEN [counters |-> IncrementAll(st.counters, rule.counters),
           stores |-> AppendAll(st.stores, rule.stores, text),
           fired |-> Append(st.fired, <<lineNo, idx>>),
           stop |-> CheckReturn(rule, matched)]
     ELSE [counters |-> st.counters, stores |-> st.stores,
           fired |-> st.fired, stop |-> CheckReturn(rule, matched)]

\* A faulty variant of PassedOn: the text a matching rule has made of the
\* line goes on to the next rule.
PassedOnChanged(rule, line) ==
  IF Search(rule, line) # 0 THEN StoredText(rule, line) ELSE line

\* The line lineRead gives to the rule after this one: check() rebinds its
\* own parameter line, lineRead's variable line stays what it was.
PassedOn(rule, line) == line

\* FileMonitor.lineRead(line): the rules in order, until one returns True.
RECURSIVE LineReadFrom(_, _, _, _, _)
LineReadFrom(rs, idx, lineNo, line, st) ==
  IF idx > Len(rs) THEN st
  ELSE LET r == Check(rs[idx], idx, lineNo, line, st)
       IN IF r.stop THEN r
          ELSE LineReadFrom(rs, idx + 1, lineNo, PassedOn(rs[idx], line), r)

LineRead(rs, lineNo, line, st) ==
  LET r == LineReadFrom(rs, 1, lineNo, line, st)
  IN [counters |-> r.counters, stores |-> r.stores, fired |-> r.fired]

\* for line in lines: self.lineRead(line); done lines are already logged.
RECURSIVE LineReadAll(_, _, _, _)
LineReadAll(rs, done, lines, st) ==
  IF lines = <<>> THEN st
  ELSE LineReadAll(rs, done + 1, Tail(lines),
                   LineRead(rs, done + 1, Head(lines), st))

\* ------------------------------------------------------------- state

VARIABLES
  fs,        \* the file system: path -> [exists, content]
  filename,  \* FileMonitor._filename
  file,      \* FileMonitor.file: [open, path, pos]; open = FALSE for None
  nopen,     \* file descriptors the process holds open
  data,      \* FileMonitor.data: what was read and not yet processed
  counters,  \* FileMonitor.counters, a defaultdict(int): name -> count
  stores,    \* FileMonitor.stores, a defaultdict(list): name -> lines
  rules,     \* FileMonitor.rules
  lcs,       \* the LoopingCalls made by loop(): "running" or "stopped"
  active,    \* the LoopingCalls whose call of read() is in progress
  lineLog,   \* history: the lines passed to lineRead, in order
  fired,     \* history: <<line number, rule number>> of every match
  openEof,   \* history: the length the open file had when it was opened
  openFailed,\* history: an open() of read() has failed
  ioErrors,  \* history: IOErrors raised by file.read() so far
  nchanges,  \* history: assignments to filename so far
  limits,    \* the bounds of the run: [loops, bytes]
  monitors,  \* MonitorsView.monitors: name -> monitor object
  pending,   \* the effects the lineRead in progress has still to apply
  resp       \* history: the last response of the query surface

vars == <<fs, filename, file, nopen, data, counters, stores, rules, lcs,
          active, lineLog, fired, openEof, openFailed, ioErrors, nchanges,
          limits, monitors, pending, resp>>

\* What the tailing of a file neither reads nor changes.
webvars == <<monitors, pending>>

\* MonitorsView.monitors = {}
NoMonitors == [n \in {} |-> 0]

\* No request has been answered.
NoResp == [req |-> <<>>, status |-> "none", count |-> 0, lines |-> <<>>,
           names |-> {}]

\* file = None
NoFile == [open |-> FALSE, path |-> "", pos |-> 0]
EmptyMap == [n \in {} |-> 0]

\* The two rules of the monitor the runs tail with, after main()'s pair:
\* the first counts twice and goes on, the second captures and stores.
MainRules ==
  << MkRule(<<"a", "a">>, 0, <<"c1", "c1">>, <<"s1">>, FALSE),
     MkRule(<<"a">>, 1, <<"c2">>, <<"s1", "s2">>, FALSE) >>

\* The names the queries look up: a counter and a store of the rules, which
\* are unknown to the monitor until a rule has used them.
CounterQueries == {"c1"}
StoreQueries == {"s1"}

\* main() calls loop() once.
MainLoops == 1

\* FileMonitor.__init__, before any loop() call; no file exists yet.
Init ==
  /\ fs = [p \in Paths |-> [exists |-> FALSE, content |-> <<>>]]
  /\ filename = "p1"
  /\ file = NoFile
  /\ nopen = 0
  /\ data = <<>>
  /\ counters = EmptyMap
  /\ stores = EmptyMap
  /\ rules = MainRules
  /\ lcs = <<>>
  /\ active = {}
  /\ lineLog = <<>>
  /\ fired = <<>>
  /\ openEof = 0
  /\ openFailed = FALSE
  /\ ioErrors = 0
  /\ nchanges = 0
  /\ limits = [loops |-> MainLoops, bytes |-> MaxBytes]
  /\ monitors = NoMonitors
  /\ pending = <<>>
  /\ resp = NoResp

\* ------------------------------------------------------------- writers

TotalBytes == Len(fs["p1"].content) + Len(fs["p2"].content)

\* Another process creates the file.
CreateFile(p) ==
  /\ ~fs[p].exists
  /\ fs' = [fs EXCEPT ![p].exists = TRUE]
  /\ UNCHANGED <<filename, file, nopen, data, counters, stores, rules, lcs,
                 active, lineLog, fired, openEof, openFailed,
                 ioErrors, nchanges, limits, webvars, resp>>

\* Another process appends one character to the file.
AppendFile(p, c) ==
  /\ fs[p].exists
  /\ TotalBytes < limits.bytes
  /\ fs' = [fs EXCEPT ![p].content = Append(@, c)]
  /\ UNCHANGED <<filename, file, nopen, data, counters, stores, rules, lcs,
                 active, lineLog, fired, openEof, openFailed,
                 ioErrors, nchanges, limits, webvars, resp>>

\* ------------------------------------------------------------- monitor

\* A faulty variant of CanDispatch: calls are dispatched on free threads.
CanDispatchAlways == TRUE

\* The reactor runs one call at a time: a timer or a request is dispatched
\* only when no call is in progress, that is, no read() is between its
\* halves and no lineRead has effects left to apply.
CanDispatch == active = {} /\ pending = <<>>

\* A faulty variant of SetterOpen: the file is dropped and not closed.
SetterLeak(f, n) == n

\* filename.setter: close the open file, if any, and set the name.
SetterFile(f) == NoFile
SetterOpen(f, n) == IF f.open THEN n - 1 ELSE n
SetterData(d) == d

SetFilename(p) ==
  /\ CanDispatch
  /\ nchanges < MaxChanges
  /\ file' = SetterFile(file)
  /\ nopen' = SetterOpen(file, nopen)
  /\ filename' = p
  /\ data' = SetterData(data)
  /\ nchanges' = nchanges + 1
  /\ openEof' = 0
  /\ UNCHANGED <<fs, counters, stores, rules, lcs, active, lineLog, fired,
                 openFailed, ioErrors, limits, webvars, resp>>

\* A variant of OpenAt that seeks to the end of the file.
OpenAtEnd(p) == [open |-> TRUE, path |-> p, pos |-> Len(fs[p].content)]

\* open(self.filename): a new file object at offset 0.
OpenAt(p) == [open |-> TRUE, path |-> p, pos |-> 0]

\* A faulty variant of OpenFailLcs: the IOError escapes read(), which
\* stops the LoopingCall.
OpenFailStops(l, k) == [l EXCEPT ![k] = "stopped"]

\* What an IOError of open() does to the LoopingCalls: it is caught.
OpenFailLcs(l, k) == l

\* The first half of read(), called by LoopingCall k: open the file if
\* there is none; an IOError of open() ends the call.
ReadBegin(k, l) ==
  IF ~file.open /\ ~fs[filename].exists
  THEN /\ lcs' = OpenFailLcs(l, k)
       /\ openFailed' = TRUE
       /\ UNCHANGED <<file, nopen, active, openEof>>
  ELSE /\ file' = IF file.open THEN file ELSE OpenAt(filename)
       /\ nopen' = IF file.open THEN nopen ELSE nopen + 1
       /\ openEof' = IF file.open THEN openEof
                     ELSE Len(fs[filename].content)
       /\ active' = active \cup {k}
       /\ lcs' = l
       /\ UNCHANGED openFailed

\* loop(): a new LoopingCall, started with now=True: it calls read() at once.
Loop ==
  /\ CanDispatch
  /\ Len(lcs) < limits.loops
  /\ ReadBegin(Len(lcs) + 1, Append(lcs, "running"))
  /\ UNCHANGED <<fs, filename, data, counters, stores, rules, lineLog,
                 fired, ioErrors, nchanges, limits, webvars, resp>>

\* A running LoopingCall's timer fires.
Tick(k) ==
  /\ CanDispatch
  /\ lcs[k] = "running"
  /\ ReadBegin(k, lcs)
  /\ UNCHANGED <<fs, filename, data, counters, stores, rules, lineLog,
                 fired, ioErrors, nchanges, limits, webvars, resp>>

\* self.file.read(self.block_size)
FileRead(f, size) ==
  LET c == fs[f.path].content
  IN SubSeq(c, f.pos + 1, Min(f.pos + size, Len(c)))

\* A faulty variant of Buffered: what was held back is forgotten.
BufferedNoCarry(d, chunk) == chunk

\* The buffer read() splits: what was held back, then what was just read.
Buffered(d, chunk) == d \o chunk

\* The second half of read(): read a block, keep what follows the last
\* newline, pass the lines before it to lineRead.
ReadEnd(k) ==
  /\ k \in active
  /\ LET chunk == FileRead(file, BlockSize)
         contents == RSplit1(Buffered(data, chunk))
         lines == IF Len(contents) = 2 THEN SplitLines(contents[1]) ELSE <<>>
         st == LineReadAll(rules, Len(lineLog), lines,
                 [counters |-> counters, stores |-> stores, fired |-> fired])
     IN /\ file' = [file EXCEPT !.pos = @ + Len(chunk)]
        /\ data' = IF Len(contents) = 2 THEN contents[2] ELSE contents[1]
        /\ counters' = st.counters
        /\ stores' = st.stores
        /\ fired' = st.fired
        /\ lineLog' = lineLog \o lines
  /\ active' = active \ {k}
  /\ UNCHANGED <<fs, filename, nopen, rules, lcs, openEof, openFailed,
                 ioErrors, nchanges, limits, webvars, resp>>

\* self.file.read raises IOError: read() does not catch it, and the
\* LoopingCall that called read() stops.
ReadError(k) ==
  /\ k \in active
  /\ lcs' = [lcs EXCEPT ![k] = "stopped"]
  /\ active' = active \ {k}
  /\ ioErrors' = ioErrors + 1
  /\ UNCHANGED <<fs, filename, file, nopen, data, counters, stores, rules,
                 lineLog, fired, openEof, openFailed, nchanges, limits, webvars, resp>>

\* ------------------------------------------------------------- queries

\* CountersView.getChild(name): self.monitor.counters[name]; a defaultdict
\* makes the missing entry.
CountersGetChild(cnt, name) ==
  IF name \in DOMAIN cnt THEN cnt ELSE cnt @@ (name :> 0)

\* StoresView.getChild(name): self.monitor.stores[name]
StoresGetChild(sto, name) ==
  IF name \in DOMAIN sto THEN sto ELSE sto @@ (name :> <<>>)

\* The call CountersView.getChild(name) on the monitor.
GetCounter(name) ==
  /\ CanDispatch
  /\ counters' = CountersGetChild(counters, name)
  /\ UNCHANGED <<fs, filename, file, nopen, data, stores, rules, lcs,
                 active, lineLog, fired, openEof, openFailed,
                 ioErrors, nchanges, limits, webvars>>

QueryCounter(name) == GetCounter(name) /\ UNCHANGED resp

\* The call StoresView.getChild(name) on the monitor.
GetStore(name) ==
  /\ CanDispatch
  /\ stores' = StoresGetChild(stores, name)
  /\ UNCHANGED <<fs, filename, file, nopen, data, counters, rules, lcs,
                 active, lineLog, fired, openEof, openFailed,
                 ioErrors, nchanges, limits, webvars>>

QueryStore(name) == GetStore(name) /\ UNCHANGED resp

\* CountersView.render and StoresView.render: the names, nothing changes.
GetList ==
  /\ CanDispatch
  /\ UNCHANGED <<fs, filename, file, nopen, data, counters, stores, rules,
                 lcs, active, lineLog, fired, openEof, openFailed, ioErrors,
                 nchanges, limits, webvars>>

QueryList == GetList /\ UNCHANGED resp

\* ------------------------------------------------------------- runs

Next ==
  \/ \E p \in Paths : CreateFile(p)
  \/ \E p \in Paths, c \in Chars : AppendFile(p, c)
  \/ \E p \in Paths : SetFilename(p)
  \/ Loop
  \/ \E k \in DOMAIN lcs : Tick(k)
  \/ \E k \in active : ReadEnd(k)
  \/ \E k \in active : ReadError(k)
  \/ \E n \in CounterQueries : QueryCounter(n)
  \/ \E n \in StoreQueries : QueryStore(n)
  \/ QueryList

Spec == Init /\ [][Next]_vars

\* The runs in which loop() is called up to MaxLoops times.
InitLoops ==
  /\ fs = [p \in Paths |-> [exists |-> FALSE, content |-> <<>>]]
  /\ filename = "p1"
  /\ file = NoFile
  /\ nopen = 0
  /\ data = <<>>
  /\ counters = EmptyMap
  /\ stores = EmptyMap
  /\ rules = MainRules
  /\ lcs = <<>>
  /\ active = {}
  /\ lineLog = <<>>
  /\ fired = <<>>
  /\ openEof = 0
  /\ openFailed = FALSE
  /\ ioErrors = 0
  /\ nchanges = 0
  /\ limits = [loops |-> MaxLoops, bytes |-> MaxLoopBytes]
  /\ monitors = NoMonitors
  /\ pending = <<>>
  /\ resp = NoResp

SpecLoops == InitLoops /\ [][Next]_vars

\* ------------------------------------------------------------- rule runs

\* The runs of lineRead alone: a monitor with any list of up to MaxRules
\* rules of the pool is given any lines of up to MaxLineLen characters.
LineChars == {"a", "b"}
Lines == UNION {[1..n -> LineChars] : n \in 0..MaxLineLen}

\* What a rule of the pool does when it matches, by its number of groups.
PoolEffects ==
  { [ngroups |-> 0, counters |-> <<"c1">>, stores |-> <<"s1">>],
    [ngroups |-> 1, counters |-> <<"c2", "c2">>, stores |-> <<"s1", "s2">>],
    [ngroups |-> 2, counters |-> <<>>, stores |-> <<"s2">>] }

RulePool ==
  { MkRule(<<c>>, e.ngroups, e.counters, e.stores, stop) :
      c \in LineChars, e \in PoolEffects, stop \in BOOLEAN }

RuleLists == UNION {[1..n -> RulePool] : n \in 0..MaxRules}

InitRules ==
  /\ fs = [p \in Paths |-> [exists |-> FALSE, content |-> <<>>]]
  /\ filename = "p1"
  /\ file = NoFile
  /\ nopen = 0
  /\ data = <<>>
  /\ counters = EmptyMap
  /\ stores = EmptyMap
  /\ rules \in RuleLists
  /\ lcs = <<>>
  /\ active = {}
  /\ lineLog = <<>>
  /\ fired = <<>>
  /\ openEof = 0
  /\ openFailed = FALSE
  /\ ioErrors = 0
  /\ nchanges = 0
  /\ limits = [loops |-> MainLoops, bytes |-> MaxBytes]
  /\ monitors = NoMonitors
  /\ pending = <<>>
  /\ resp = NoResp

\* One call of lineRead(line).
LineReadCall(line) ==
  /\ Len(lineLog) < MaxCalls
  /\ LET st == LineRead(rules, Len(lineLog) + 1, line,
                 [counters |-> counters, stores |-> stores, fired |-> fired])
     IN /\ counters' = st.counters
        /\ stores' = st.stores
        /\ fired' = st.fired
  /\ lineLog' = Append(lineLog, line)
  /\ UNCHANGED <<fs, filename, file, nopen, data, rules, lcs, active,
                 openEof, openFailed, ioErrors, nchanges, limits, webvars, resp>>

NextRules == \E line \in Lines : LineReadCall(line)

SpecRules == InitRules /\ [][NextRules]_vars

\* ------------------------------------------------------------- web

\* The state of the monitor and of its file system.
tailvars == <<fs, filename, file, nopen, data, counters, stores, rules, lcs,
              active, lineLog, fired, openEof, openFailed, ioErrors, nchanges,
              limits>>

\* The monitor names requests ask for; main() makes the monitor 'junk'.
MonitorNames == {"junk", "none"}

\* The FileMonitor objects: object 1 is the monitor whose state the variables
\* above hold, object 2 is another FileMonitor, whose state is not followed.
\* Both were made with the name 'junk'.
MonitorObjects == {1, 2}

MonitorName(m) == "junk"

\* MonitorsView.add(monitor): self.monitors[monitor.name] = monitor
Add(m) ==
  /\ CanDispatch
  /\ monitors' = [n \in DOMAIN monitors \cup {MonitorName(m)} |->
                    IF n = MonitorName(m) THEN m ELSE monitors[n]]
  /\ UNCHANGED <<tailvars, pending, resp>>

\* MonitorsView.getChild(name): self.monitors[name] of a plain dict raises
\* KeyError when the name is not a key; the request is answered with the
\* failure and nothing is changed.
KeyError(req) ==
  /\ CanDispatch
  /\ resp' = [NoResp EXCEPT !.req = req, !.status = "KeyError"]
  /\ UNCHANGED <<tailvars, webvars>>

Ok(req) == [NoResp EXCEPT !.req = req, !.status = "ok"]

\* GET /monitors: the names of the registered monitors.
WebMonitors ==
  /\ GetList
  /\ resp' = [Ok(<<"monitors">>) EXCEPT !.names = DOMAIN monitors]

\* GET /monitors/m: the static text "stores\ncounters\n". Requests that
\* reach object 2 are not followed.
WebMonitor(m) ==
  LET req == <<"monitor", m>>
  IN IF m \notin DOMAIN monitors THEN KeyError(req)
     ELSE /\ monitors[m] = 1
          /\ GetList
          /\ resp' = [Ok(req) EXCEPT !.names = {"stores", "counters"}]

\* GET /monitors/m/counters and GET /monitors/m/stores: the names.
WebNames(m, kind) ==
  LET req == <<kind, m>>
  IN IF m \notin DOMAIN monitors THEN KeyError(req)
     ELSE /\ monitors[m] = 1
          /\ GetList
          /\ resp' = [Ok(req) EXCEPT
                        !.names = IF kind = "counters" THEN DOMAIN counters
                                  ELSE DOMAIN stores]

\* GET /monitors/m/counters/name: CounterView renders the looked-up value.
WebCounter(m, name) ==
  LET req == <<"counter", m, name>>
  IN IF m \notin DOMAIN monitors THEN KeyError(req)
     ELSE /\ monitors[m] = 1
          /\ GetCounter(name)
          /\ resp' = [Ok(req) EXCEPT !.count = counters'[name]]

\* GET /monitors/m/stores/name: StoreView renders the looked-up list.
WebStore(m, name) ==
  LET req == <<"store", m, name>>
  IN IF m \notin DOMAIN monitors THEN KeyError(req)
     ELSE /\ monitors[m] = 1
          /\ GetStore(name)
          /\ resp' = [Ok(req) EXCEPT !.lines = stores'[name]]

WebQuery ==
  \/ WebMonitors
  \/ \E m \in MonitorNames : WebMonitor(m)
  \/ \E m \in MonitorNames, kind \in {"counters", "stores"} :
       WebNames(m, kind)
  \/ \E m \in MonitorNames, name \in CounterQueries : WebCounter(m, name)
  \/ \E m \in MonitorNames, name \in StoreQueries : WebStore(m, name)

\* The names of the counters and of the stores of the rules.
CounterNames == {"c1", "c2"}

StoreNames == {"s1", "s2"}

\* The monitor of main(), registered as 'junk', and the requests of web
\* clients; files of up to MaxLoopBytes bytes.
InitWeb ==
  /\ fs = [p \in Paths |-> [exists |-> FALSE, content |-> <<>>]]
  /\ filename = "p1"
  /\ file = NoFile
  /\ nopen = 0
  /\ data = <<>>
  /\ counters = EmptyMap
  /\ stores = EmptyMap
  /\ rules = MainRules
  /\ lcs = <<>>
  /\ active = {}
  /\ lineLog = <<>>
  /\ fired = <<>>
  /\ openEof = 0
  /\ openFailed = FALSE
  /\ ioErrors = 0
  /\ nchanges = 0
  /\ limits = [loops |-> MainLoops, bytes |-> MaxLoopBytes]
  /\ monitors = [n \in {"junk"} |-> 1]
  /\ pending = <<>>
  /\ resp = NoResp

NextWeb ==
  \/ \E p \in Paths : CreateFile(p)
  \/ \E p \in Paths, c \in Chars : AppendFile(p, c)
  \/ \E p \in Paths : SetFilename(p)
  \/ Loop
  \/ \E k \in DOMAIN lcs : Tick(k)
  \/ \E k \in active : ReadEnd(k)
  \/ \E k \in active : ReadError(k)
  \/ \E m \in MonitorObjects : Add(m)
  \/ WebQuery

SpecWeb == InitWeb /\ [][NextWeb]_vars

\* ---- the statements of Rule.check, one at a time

\* The statements of Rule.check that change the monitor, in program order:
\* counters[counter] += 1 for every counter, then stores[store].append(line)
\* for every store.
RuleEffects(rule, line) ==
  IF Search(rule, line) # 0
  THEN [i \in 1..Len(rule.counters) |->
          [op |-> "inc", name |-> rule.counters[i], text |-> <<>>]]
       \o [i \in 1..Len(rule.stores) |->
             [op |-> "app", name |-> rule.stores[i],
              text |-> StoredText(rule, line)]]
  ELSE <<>>

\* The statements of one lineRead(line), over the rules it checks.
RECURSIVE LineEffects(_, _, _)
LineEffects(rs, idx, line) ==
  IF idx > Len(rs) THEN <<>>
  ELSE RuleEffects(rs[idx], line)
         \o (IF CheckReturn(rs[idx], Search(rs[idx], line) # 0) THEN <<>>
             ELSE LineEffects(rs, idx + 1, PassedOn(rs[idx], line)))

\* lineRead(line) is called: its matches are logged, its statements are
\* still to run.
LineReadBegin(line) ==
  /\ CanDispatch
  /\ Len(lineLog) < MaxCalls
  /\ lineLog' = Append(lineLog, line)
  /\ fired' = LineRead(rules, Len(lineLog) + 1, line,
                [counters |-> counters, stores |-> stores,
                 fired |-> fired]).fired
  /\ pending' = LineEffects(rules, 1, line)
  /\ UNCHANGED <<fs, filename, file, nopen, data, counters, stores, rules,
                 lcs, active, openEof, openFailed, ioErrors, nchanges,
                 limits, monitors, resp>>

\* The next statement of the lineRead in progress runs.
LineReadStep ==
  /\ pending # <<>>
  /\ LET e == Head(pending)
     IN /\ counters' = IF e.op = "inc" THEN Increment(counters, e.name)
                       ELSE counters
        /\ stores' = IF e.op = "app" THEN AppendStore(stores, e.name, e.text)
                     ELSE stores
  /\ pending' = Tail(pending)
  /\ UNCHANGED <<fs, filename, file, nopen, data, rules, lcs, active,
                 lineLog, fired, openEof, openFailed, ioErrors, nchanges,
                 limits, monitors, resp>>

\* Requests against a monitor that processes lines: main()'s monitor with
\* its two rules, registered as 'junk'.
InitSteps ==
  /\ fs = [p \in Paths |-> [exists |-> FALSE, content |-> <<>>]]
  /\ filename = "p1"
  /\ file = NoFile
  /\ nopen = 0
  /\ data = <<>>
  /\ counters = EmptyMap
  /\ stores = EmptyMap
  /\ rules = MainRules
  /\ lcs = <<>>
  /\ active = {}
  /\ lineLog = <<>>
  /\ fired = <<>>
  /\ openEof = 0
  /\ openFailed = FALSE
  /\ ioErrors = 0
  /\ nchanges = 0
  /\ limits = [loops |-> MainLoops, bytes |-> MaxBytes]
  /\ monitors = [n \in {"junk"} |-> 1]
  /\ pending = <<>>
  /\ resp = NoResp

NextSteps ==
  \/ \E line \in Lines : LineReadBegin(line)
  \/ LineReadStep
  \/ \E name \in CounterNames : WebCounter("junk", name)
  \/ \E name \in StoreNames : WebStore("junk", name)

SpecSteps == InitSteps /\ [][NextSteps]_vars

\* ------------------------------------------------------------- claims

Matches(rule, line) == Search(rule, line) # 0

\* The numbers of the rules that fired on line number n, in the order in
\* which they fired.
FiredOn(n) ==
  LET idx == {i \in 1..Len(fired) : fired[i][1] = n}
      RECURSIVE Pick(_)
      Pick(i) == IF i > Len(fired) THEN <<>>
                 ELSE IF i \in idx THEN <<fired[i][2]>> \o Pick(i + 1)
                 ELSE Pick(i + 1)
  IN Pick(1)

\* The rules whose effects C1 says a line gets: every matching rule with no
\* matching stop rule before it.
DueRules(rs, line) ==
  {i \in 1..Len(rs) :
     /\ Matches(rs[i], line)
     /\ \A j \in 1..(i - 1) : ~(Matches(rs[j], line) /\ rs[j].stop)}

Ascending(s) == \A i, j \in 1..Len(s) : i < j => s[i] < s[j]

\* C1: for every line passed to lineRead, the rules whose effects were
\* applied are exactly the matching rules up to and including the first
\* matching rule with stop set (all matching rules when there is none), in
\* index order.
C1_EffectsUpToFirstMatchingStop ==
  \A n \in 1..Len(lineLog) :
    LET f == FiredOn(n)
    IN /\ Ascending(f)
       /\ {f[i] : i \in 1..Len(f)} = DueRules(rules, lineLog[n])

\* C1's case as the code runs it: a rule with stop set that does not match
\* comes before a rule that matches the line.
C1_StopRuleMissesLine ==
  /\ Len(lineLog) = 1
  /\ Len(rules) = 2
  /\ rules[1].stop
  /\ ~Matches(rules[1], lineLog[1])
  /\ Matches(rules[2], lineLog[1])

\* ---- steps of the monitor, told by what they change

Has(s, c) == \E i \in 1..Len(s) : s[i] = c

IsPrefix(a, b) == Len(a) <= Len(b) /\ SubSeq(b, 1, Len(a)) = a

\* The text after the last newline of s, all of s when it has none.
AfterLastNL(s) == SubSeq(s, LastIndexOf(s, NL) + 1, Len(s))

\* The text before the first newline of s, all of s when it has none.
BeforeFirstNL(s) ==
  LET hits == {i \in 1..Len(s) : s[i] = NL}
  IN IF hits = {} THEN s
     ELSE SubSeq(s, 1, (CHOOSE i \in hits : \A j \in hits : i <= j) - 1)

Running(l) == {k \in DOMAIN l : l[k] = "running"}

\* A call of read() ends normally in this step.
ReadEndStep == active' # active /\ active' \subseteq active /\ lcs' = lcs

\* A call of read() opens the file in this step.
OpenStep == ~file.open /\ file'.open

\* The filename is assigned in this step.
SetFilenameStep == nchanges' # nchanges

\* In a ReadEndStep: the bytes read, and the lines passed to lineRead.
ChunkRead == SubSeq(fs[file.path].content, file.pos + 1, file'.pos)
NewLines == SubSeq(lineLog', Len(lineLog) + 1, Len(lineLog'))

\* ---- C2

\* C2, as claimed: a read cycle that reads no newline passes no line and
\* keeps all it read behind the buffer; one that reads a newline leaves in
\* the buffer what follows the last newline, and the non-empty text it had
\* held back is passed to lineRead as one line, joined with what was read up
\* to the first newline.
C2_HeldBackPassedAsOneLine ==
  [][ReadEndStep =>
       LET chunk == ChunkRead
       IN /\ ~Has(data', NL)
          /\ ~Has(chunk, NL) => data' = data \o chunk /\ NewLines = <<>>
          /\ Has(chunk, NL) =>
               /\ data' = AfterLastNL(chunk)
               /\ data # <<>> =>
                    /\ NewLines # <<>>
                    /\ NewLines[1] = data \o BeforeFirstNL(chunk)]_vars

\* C2, amended: as C2, but the held-back text joined with what was read up
\* to the first newline is passed as the lines str.splitlines makes of it:
\* as one line when it holds no carriage return, split at its carriage
\* returns otherwise.
C2_HeldBackPassedSplitAtCR ==
  [][ReadEndStep =>
       LET chunk == ChunkRead
           joined == data \o BeforeFirstNL(chunk)
       IN /\ ~Has(data', NL)
          /\ ~Has(chunk, NL) => data' = data \o chunk /\ NewLines = <<>>
          /\ Has(chunk, NL) =>
               /\ data' = AfterLastNL(chunk)
               /\ data # <<>> =>
                    /\ IsPrefix(SplitLines(joined), NewLines)
                    /\ ~Has(joined, CR) => NewLines[1] = joined]_vars

\* C2's case: "aa\n" was read and passed as the line "aa".  A cycle reads at
\* most BlockSize = 2 bytes, so the newline was read by a later cycle than
\* the first "a", which was held back meanwhile.
C2_LineJoinedAcrossCycles ==
  /\ nchanges = 0
  /\ fs["p1"].content = <<"a", "a", NL>>
  /\ file.open /\ file.pos = 3
  /\ lineLog = << <<"a", "a">> >>
  /\ data = <<>>

\* ---- C3

HasFirstLine(text) == Has(text, NL) /\ text[1] \notin {NL, CR}

C4_FilenameChangeClearsBuffer ==
  [][SetFilenameStep => data' = <<>>]_vars

\* ---- C5

\* C5: the process holds at most one open descriptor, the one of the
\* monitor's file object, and that is a file opened under the current
\* filename; an assignment to filename leaves no descriptor open and the
\* monitor without a file; the bytes of a read are those of the file of the
\* current filename.
C5_OneHandleOfCurrentFile ==
  /\ [](nopen <= 1 /\ (file.open <=> nopen = 1)
        /\ (file.open => file.path = filename))
  /\ [][SetFilenameStep => ~file'.open /\ nopen' = 0]_vars
  /\ [][ReadEndStep =>
          /\ file.path = filename
          /\ data' = AfterLastNL(data \o
               SubSeq(fs[filename].content, file.pos + 1, file'.pos))]_vars

\* C5's case: "a" was read from p1, the filename was changed to p2, and the
\* newline was then read from p2.
C5_ReadFromNewFile ==
  /\ nchanges = 1 /\ filename = "p2"
  /\ fs["p1"].content = <<"a">> /\ fs["p2"].content = <<NL>>
  /\ file.open /\ file.path = "p2" /\ file.pos = 1
  /\ lineLog = << <<"a">> >>

\* ---- C6

\* The monitor has no file and the file of its filename cannot be opened.
ClosedAndAbsent == ~file.open /\ ~fs[filename].exists

\* A step of loop() or of a LoopingCall.
ReadCycleStep ==
  lcs' # lcs \/ active' # active \/ openFailed' # openFailed

\* C6: a read cycle of a monitor without a file, whose file cannot be
\* opened, leaves the monitor without a file and its buffer, counters and
\* stores as they were, stops no LoopingCall, and leaves every running
\* LoopingCall free to call read() again.
C6_OpenFailureIsRetried ==
  [][ClosedAndAbsent /\ ReadCycleStep =>
       /\ ~file'.open /\ nopen' = 0
       /\ openFailed'
       /\ UNCHANGED <<data, counters, stores, lineLog, ioErrors>>
       /\ Running(lcs) \subseteq Running(lcs')
       /\ Running(lcs') # {}
       /\ active' = {}]_vars

\* C6's case: an open has failed, the file is still absent, and the
\* LoopingCall is still running.
C6_OpenFailedAndStillRunning ==
  /\ openFailed /\ ClosedAndAbsent
  /\ lcs = <<"running">>
  /\ nchanges = 0

\* ---- C7

\* C7: an IOError of file.read() leaves the monitor without a file and no
\* descriptor open, and stops no LoopingCall.
C7_ReadErrorClosesAndRetries ==
  [][ioErrors' # ioErrors =>
       /\ ~file'.open /\ nopen' = 0
       /\ Running(lcs) \subseteq Running(lcs')]_vars

\* ---- C8

\* The value a query of the counter gets.
CounterValue(name) == CountersGetChild(counters, name)[name]

\* How often name is in the list names.
Occurrences(names, name) ==
  Cardinality({i \in 1..Len(names) : names[i] = name})

\* The sum of Occurrences over the counter lists of the first n matches.
RECURSIVE Incremented(_, _)
Incremented(n, name) ==
  IF n = 0 THEN 0
  ELSE Incremented(n - 1, name)
         + Occurrences(rules[fired[n][2]].counters, name)

\* C8: a counter reads as the number of times its name is in the counter
\* lists of the rules that matched, once for every match (0 before any),
\* every match is a match of a rule on a line that was read, and no step
\* makes a counter smaller.
C8_CountersCountMatches ==
  /\ [](\A name \in CounterNames :
          CounterValue(name) = Incremented(Len(fired), name))
  /\ [](\A i \in 1..Len(fired) :
          Matches(rules[fired[i][2]], lineLog[fired[i][1]]))
  /\ [][\A name \in CounterNames :
          /\ name \in DOMAIN counters => name \in DOMAIN counters'
          /\ CountersGetChild(counters', name)[name] >= CounterValue(name)
       ]_vars

\* C8's case: after a change of the filename, a counter stands at 2 and
\* another at 1.
C8_CountedTwice ==
  /\ nchanges = 1
  /\ CounterValue("c1") = 2
  /\ CounterValue("c2") = 1

\* ---- C9

\* The lines a query of the store gets.
StoreValue(name) == StoresGetChild(stores, name)[name]

RECURSIVE Repeat(_, _)
Repeat(x, n) == IF n = 0 THEN <<>> ELSE <<x>> \o Repeat(x, n - 1)

\* What the first n matches put into the store, in the order of the matches.
RECURSIVE Stored(_, _)
Stored(n, name) ==
  IF n = 0 THEN <<>>
  ELSE LET rule == rules[fired[n][2]]
       IN Stored(n - 1, name)
            \o Repeat(StoredText(rule, lineLog[fired[n][1]]),
                      Occurrences(rule.stores, name))

\* C9: every step leaves every store with what it held as a prefix of what
\* it holds, and a store holds the texts of the matches that store into it,
\* in the order in which the lines were processed.
C9_StoresAppendOnly ==
  /\ [][\A name \in DOMAIN stores :
          /\ name \in DOMAIN stores'
          /\ IsPrefix(stores[name], stores'[name])]_vars
  /\ [](\A name \in StoreNames : StoreValue(name) = Stored(Len(fired), name))
  /\ [](\A i, j \in 1..Len(fired) : i < j => fired[i][1] <= fired[j][1])

\* C9's case: a store holds two different texts, of two matches.
C9_TwoEntriesInOrder ==
  /\ Len(StoreValue("s1")) >= 2
  /\ StoreValue("s1")[1] # StoreValue("s1")[2]

\* ---- C10

\* C10: at most one call of read() is in progress, and a call of read()
\* starts only when none is in progress.
C10_OneReadAtATime ==
  /\ [](Cardinality(active) <= 1)
  /\ [][active' # active /\ ~(active' \subseteq active) => active = {}]_vars

\* C10's case: loop() was called twice, both LoopingCalls run, and the read
\* of one of them is in progress.
C10_TwoLoopsOneReading ==
  /\ Len(lcs) = 2
  /\ Running(lcs) = {1, 2}
  /\ Cardinality(active) = 1

\* ---- C11

\* The monitor state is what n whole matches leave: all the effects of the
\* first n matches and none of a later one.
AppliedUpTo(n) ==
  /\ \A name \in CounterNames : CounterValue(name) = Incremented(n, name)
  /\ \A name \in StoreNames : StoreValue(name) = Stored(n, name)

\* A request is answered in this step.
QueryStep == resp' # resp

\* C11: a request is answered only from a state in which every match has
\* all of its counter and store effects applied or none of them, and the
\* answer is the looked-up value of that state; when no lineRead is in
\* progress all effects of all matches are applied.
C11_QueriesSeeWholeEffects ==
  /\ [][QueryStep =>
          /\ \E n \in 0..Len(fired) : AppliedUpTo(n)
          /\ resp'.req[1] = "counter" =>
               resp'.count = CounterValue(resp'.req[3])
          /\ resp'.req[1] = "store" =>
               resp'.lines = StoreValue(resp'.req[3])]_vars
  /\ [](pending = <<>> => AppliedUpTo(Len(fired)))

\* C11's case: a request was answered after a line whose match increments
\* a counter twice and appends to a store, so that there were states in
\* between its effects.
C11_AnsweredAfterEffects ==
  /\ resp.status = "ok"
  /\ resp.req[1] = "counter"
  /\ resp.count = 2
  /\ Len(StoreValue("s1")) >= 1

\* ---- C12

\* C12: a request changes neither the counters mapping, nor the stores
\* mapping, nor the buffer, the file handle or the rule list of the monitor;
\* a lookup adds no name to the listings.
C12_QueriesChangeNothing ==
  [][QueryStep =>
       /\ counters' = counters
       /\ stores' = stores
       /\ data' = data
       /\ file' = file
       /\ rules' = rules]_vars

\* C12's case as the code runs it: before any line was read, the counter
\* c1 was looked up and is now listed.
C12_LookupAddedName ==
  /\ lineLog = <<>>
  /\ resp.req = <<"counter", "junk", "c1">>
  /\ "c1" \in DOMAIN counters

\* ---- C13

\* The request of this step looks up a name that does not exist: a monitor
\* that is not registered, or a counter or a store the monitor does not have.
UnknownLookup ==
  /\ QueryStep
  /\ resp'.req[1] # "monitors"
  /\ \/ resp'.req[2] \notin DOMAIN monitors
     \/ resp'.req[1] = "counter" /\ resp'.req[3] \notin DOMAIN counters
     \/ resp'.req[1] = "store" /\ resp'.req[3] \notin DOMAIN stores

\* C13: a lookup of a name that does not exist is answered with a
\* NotFoundError, never with a value and never with a failure of the server.
C13_UnknownNameIsNotFound ==
  [][UnknownLookup => resp'.status = "NotFoundError"]_vars

\* C13's case as the code runs it: the lookup of a monitor that is not
\* registered ended in a KeyError.
C13_UnknownMonitorFailed ==
  /\ resp.status = "KeyError"
  /\ resp.req[2] = "none"

\* ---- C14

\* add() replaces the registered monitor object 1 by object 2 in this step.
ReplaceStep ==
  /\ "junk" \in DOMAIN monitors
  /\ monitors["junk"] = 1
  /\ monitors'["junk"] = 2

\* C14: when add() replaces the registered monitor, the replaced monitor
\* holds no open file and has no running LoopingCall.
C14_ReplacedMonitorIsStopped ==
  [][ReplaceStep => ~file'.open /\ Running(lcs') = {}]_vars

\* C14's case as the code runs it: the registered monitor was replaced,
\* its file is open and a read() of its LoopingCall is in progress.
C14_ReplacedMonitorStillTails ==
  /\ monitors["junk"] = 2
  /\ file.open
  /\ active # {}
  /\ active \subseteq Running(lcs)

\* ---- C15

\* The text of a matching line after the leftmost occurrence of the rule's
\* literal: what the group (.*) of the rule's regex captures.
AfterLiteral(rule, line) ==
  LET n == Len(rule.lit)
      at == {i \in 1..(Len(line) - n + 1) :
               SubSeq(line, i, i + n - 1) = rule.lit}
      first == CHOOSE i \in at : \A j \in at : i <= j
  IN SubSeq(line, first + n, Len(line))

\* The text C15 says a matching rule stores: the line itself when the regex
\* has no group, the captured texts with one space between them otherwise.
JoinedGroups(rule, line) ==
  CASE rule.ngroups = 0 -> line
    [] rule.ngroups = 1 -> AfterLiteral(rule, line)
    [] rule.ngroups = 2 -> rule.lit \o <<SP>> \o AfterLiteral(rule, line)

\* What the first n matches put into the store when each match appends
\* JoinedGroups once for every time the store is in its rule's list.
RECURSIVE StoredJoined(_, _)
StoredJoined(n, name) ==
  IF n = 0 THEN <<>>
  ELSE LET rule == rules[fired[n][2]]
       IN StoredJoined(n - 1, name)
            \o Repeat(JoinedGroups(rule, lineLog[fired[n][1]]),
                      Occurrences(rule.stores, name))

C16_NonMatchingRuleNeverHalts ==
  \A n \in 1..Len(lineLog) :
    \A i \in 1..Len(rules) :
      LET f == FiredOn(n)
          applied == i \in {f[k] : k \in 1..Len(f)}
      IN /\ ~Matches(rules[i], lineLog[n]) => ~applied
         /\ (/\ Matches(rules[i], lineLog[n])
             /\ \A j \in 1..(i - 1) : ~Matches(rules[j], lineLog[n]))
            => applied

\* C16's case as the code runs it: the first rule has stop set and does not
\* match, the second rule matches, and nothing was counted or stored.
C16_HaltedByNonMatchingRule ==
  /\ Len(lineLog) = 1
  /\ Len(rules) = 2
  /\ rules[1].stop
  /\ ~Matches(rules[1], lineLog[1])
  /\ Matches(rules[2], lineLog[1])
  /\ fired = <<>>
  /\ counters = EmptyMap
  /\ stores = EmptyMap

\* ---- C20

\* The rules lineRead calls check() on: those with no rule before them
\* whose check() returns True.
Evaluated(rs) == {i \in 1..Len(rs) : \A j \in 1..(i - 1) : ~rs[j].stop}

\* C20: of the rules that are evaluated for a line, those whose effects are
\* applied are those that match the line as it was read, and what a match
\* stores is made of the line as it was read; the text an earlier rule has
\* made of the line plays no part.
C20_RulesSeeOriginalLine ==
  /\ \A n \in 1..Len(lineLog) :
       LET f == FiredOn(n)
       IN {f[k] : k \in 1..Len(f)} =
            {i \in Evaluated(rules) : Matches(rules[i], lineLog[n])}
  /\ \A name \in StoreNames :
       StoreValue(name) = StoredJoined(Len(fired), name)

\* C20's case: the first rule matched and made another text of the line, a
\* text the second rule does not match; the second rule matched the line.
C20_SecondRuleMatchedOriginal ==
  /\ Len(lineLog) = 1
  /\ Len(rules) = 2
  /\ FiredOn(1) = <<1, 2>>
  /\ StoredText(rules[1], lineLog[1]) # lineLog[1]
  /\ ~Matches(rules[2], StoredText(rules[1], lineLog[1]))

\* ---- C17

\* The bytes read so far from the file that is open.
Consumed == SubSeq(fs[file.path].content, 1, file.pos)

\* How many newlines the text has.
Newlines(s) == Cardinality({i \in 1..Len(s) : s[i] = NL})

\* The newline-terminated lines of a text, without their newlines, in order;
\* what follows the last newline is no line.
RECURSIVE TerminatedLines(_)
TerminatedLines(s) ==
  IF ~Has(s, NL) THEN <<>>
  ELSE <<BeforeFirstNL(s)>>
         \o TerminatedLines(SubSeq(s, Len(BeforeFirstNL(s)) + 2, Len(s)))

\* C17: while the monitor reads its first file, lineRead has been called as
\* many times as newlines were read, and its i-th call got the i-th
\* newline-terminated line of what was read, empty lines included. (Stated
\* for files without carriage returns, where a line has no other line end.)
C17_EveryLinePassedOnce ==
  file.open /\ nchanges = 0 /\ ~Has(Consumed, CR) =>
    /\ Len(lineLog) = Newlines(Consumed)
    /\ lineLog = TerminatedLines(Consumed)

\* C17's case as the code runs it: the file is "a", newline, newline; all of
\* it was read, and lineRead was called once.
C17_EmptyLineDropped ==
  /\ file.open /\ nchanges = 0
  /\ Consumed = <<"a", NL, NL>>
  /\ lineLog = <<(<<"a">>)>>

\* ---- C19

\* The monitor has read all of the first file it was given.
CaughtUp ==
  /\ file.open /\ nchanges = 0 /\ active = {}
  /\ file.pos = Len(fs[file.path].content)

\* The lines one read() passes to lineRead when it reads the whole text at
\* once into an empty buffer.
ReadAtOnce(text) ==
  LET contents == RSplit1(text)
  IN IF Len(contents) = 2 THEN SplitLines(contents[1]) ELSE <<>>

\* C19: once all bytes of the file are read, the lines that were passed to
\* lineRead are those a single read of the whole file passes, however the
\* bytes were spread over the read cycles.
C19_LinesDependOnBytesOnly ==
  CaughtUp => lineLog = ReadAtOnce(Consumed)

\* C19's case as the code runs it: the file of two newlines was read in
\* one cycle, and its first, empty line was passed to lineRead.
C19_ReadInOneCycle ==
  /\ CaughtUp
  /\ Consumed = <<NL, NL>>
  /\ lineLog = <<(<<>>)>>

\* ---- C18

\* C18: a read cycle reads at most BlockSize bytes, and once the monitor has
\* read all of its file, the buffer holds what follows the last newline and
\* every newline-terminated line of the file was passed to lineRead.
\* (Stated for files without carriage returns.)
C18_CaughtUpWithEveryLine ==
  /\ [][ReadEndStep => Len(ChunkRead) <= BlockSize]_vars
  /\ [](CaughtUp /\ ~Has(Consumed, CR) =>
          /\ data = AfterLastNL(Consumed)
          /\ \A i \in 1..Len(TerminatedLines(Consumed)) :
               \E j \in 1..Len(lineLog) :
                 lineLog[j] = TerminatedLines(Consumed)[i])

\* C18's case as the code runs it: the file, longer than a block, was read
\* to its end in two cycles; its last line is empty and was not passed.
C18_BacklogReadLineMissing ==
  /\ CaughtUp
  /\ Len(Consumed) > BlockSize
  /\ Consumed = <<"a", NL, NL>>
  /\ lineLog = <<(<<"a">>)>>
  /\ data = <<>>

====
